---- MODULE Spec2Model ----
(***************************************************************************)
(* Model of ursa_sharing/examples/p256.rs: the P256Scalar and P256Point    *)
(* implementations of the ursa_sharing Field trait, and the split/combine  *)
(* scheme the example's main drives.                                       *)
(*                                                                         *)
(* The NIST P-256 parameters are scaled down so that the state space is    *)
(* finite, keeping the relations the code relies on:                       *)
(*   - a byte is a digit in 0..Base-1 (u8: 0..255);                        *)
(*   - an encoded field element is W digits, big-endian (32 bytes);        *)
(*   - the curve is y^2 = x^3 - 3x + CurveB over the prime field F_Prime;  *)
(*   - its group has prime order Order (cofactor 1), and                   *)
(*         Order < Prime < Base^W < 2*Order                                *)
(*     as for P-256 (n < p < 2^256 < 2n), so that some W-digit strings     *)
(*     are >= Order and one subtraction reduces every W-digit string.      *)
(***************************************************************************)
EXTENDS Integers, Sequences, FiniteSets

\* Number of values of one byte (u8); 256 in the program.
Base == 5
\* FieldSize (U32 in the program): the width of an encoded element.
W == 2
\* The order of the scalar field (the order n of the P-256 group).
Order == 17
\* The prime of the coordinate field (p of P-256).
Prime == 23
\* The curve's constant term b; the coefficient a is -3 as for P-256.
CurveB == 15
\* x and y of the base point (ProjectivePoint::generator()).
GenX == 1
GenY == 6

\* Longest byte buffer handed to from_bytes.
MaxBufLen == 3
\* Most operations applied to one element after it is constructed.
MaxOps == 3
\* Largest n and t - 1 handed to split with a threshold it refuses.
MaxN == 5
\* Largest n handed to split with a threshold it accepts.
MaxSplit == 3
\* Longest list of arbitrary shares handed to combine.
MaxShares == 2
\* Largest index of an arbitrary share handed to combine.
MaxIdx == 2

VARIABLES
    self,    \* the element operated on (P256Scalar, P256Point) or NoElem
    orig,    \* a clone of the element as first constructed
    rhs,     \* the scalar operand passed by reference to mul_assign/div_assign
    rhs0,    \* a clone of rhs as first constructed
    buf,     \* the byte buffer last produced by to_bytes or handed to from_bytes
    res,     \* outcome of the last call: "Ok", a SharingError, or "Panic"
    ops,     \* the calls made since construction, each <<kind, method>>
    secret,  \* split: the secret
    total,   \* split: n, the number of shares asked for
    thresh,  \* split: t, the threshold
    shares,  \* split: the shares returned (a sequence of [id, value])
    splitRes,\* split: "Ok" or the error, "None" before any split
    picked,  \* combine: the shares handed to combine
    combRes, \* combine: "Ok" or the error, "None" before any combine
    combined \* combine: the reconstructed element (NoElem on error)

elemVars == <<self, orig, rhs, rhs0, buf, res, ops>>
shareVars == <<secret, total, thresh, shares, splitRes, picked, combRes, combined>>
vars == <<self, orig, rhs, rhs0, buf, res, ops,
          secret, total, thresh, shares, splitRes, picked, combRes, combined>>

----------------------------------------------------------------------------
\* Results and elements

Ok(v) == [st |-> "Ok", v |-> v]
Err(e) == [st |-> e, v |-> [kind |-> "none"]]
Panic == [st |-> "Panic", v |-> [kind |-> "none"]]

NoElem == [kind |-> "none"]
\* struct P256Scalar(Scalar)
P256Scalar(v) == [kind |-> "scalar", v |-> v]
\* struct P256Point(ProjectivePoint); the point is kept in affine form
P256Point(x, y) == [kind |-> "point", inf |-> FALSE, x |-> x, y |-> y]
Identity == [kind |-> "point", inf |-> TRUE, x |-> 0, y |-> 0]

Byte == 0..(Base - 1)
Scalars == {P256Scalar(v) : v \in 0..(Order - 1)}

RECURSIVE Pow(_, _, _)
Pow(x, e, m) == IF e = 0 THEN 1 % m ELSE (x * Pow(x, e - 1, m)) % m

\* Whether (x, y) satisfies the curve equation y^2 = x^3 - 3x + b (mod p)
OnCurve(x, y) == (y * y) % Prime = (x * x * x + (Prime - 3) * x + CurveB) % Prime

Points == {Identity} \cup
          {P256Point(x, y) : <<x, y>> \in
              {c \in (0..(Prime - 1)) \X (0..(Prime - 1)) : OnCurve(c[1], c[2])}}

\* Bytes of buffers: every sequence over Byte of length at most n
RECURSIVE BufsOfLen(_)
BufsOfLen(n) == IF n = 0 THEN {<<>>}
                ELSE {Append(b, d) : b \in BufsOfLen(n - 1), d \in Byte}
Bufs == UNION {BufsOfLen(n) : n \in 0..MaxBufLen}

Zeros(n) == [i \in 1..n |-> 0]

\* Big-endian value of a digit string
RECURSIVE BE(_)
BE(s) == IF Len(s) = 0 THEN 0
         ELSE BE(SubSeq(s, 1, Len(s) - 1)) * Base + s[Len(s)]

\* Big-endian digits of v, n digits wide
RECURSIVE ToBE(_, _)
ToBE(v, n) == IF n = 0 THEN <<>> ELSE Append(ToBE(v \div Base, n - 1), v % Base)

\* dst.copy_from_slice(src) for a dst of dstLen bytes: panics unless the
\* lengths are equal
CopyFromSlice(dstLen, src) == IF Len(src) = dstLen THEN Ok(src) ELSE Panic

----------------------------------------------------------------------------
\* p256::Scalar, as P256Scalar uses it

\* Scalar::from_bytes_reduced: the big-endian value, less the modulus when it
\* is not below it
FromBytesReduced(s) ==
    LET v == BE(s) IN IF v >= Order THEN v - Order ELSE v

\* Scalar::invert: CtOption, none for zero, else self^(n-2)
Invert(v) == IF v = 0 THEN [some |-> FALSE, v |-> 0]
             ELSE [some |-> TRUE, v |-> Pow(v, Order - 2, Order)]

\* impl Field<P256Scalar> for P256Scalar

ScalarZero == P256Scalar(0)
ScalarOne == P256Scalar(1)
ScalarFromUsize(value) == P256Scalar(value % Order)

\* from_bytes, as written with the branches in the other order: a buffer of
\* exactly 32 bytes is refused
ScalarFromBytesStrict(value) ==
    IF Len(value) < W
    THEN Ok(P256Scalar(FromBytesReduced(value \o Zeros(W - Len(value)))))
    ELSE Err("ShareInvalidSecret")

\* from_bytes with the buffer copied to the end of s
ScalarFromBytesPadHigh(value) ==
    IF Len(value) <= W
    THEN Ok(P256Scalar(FromBytesReduced(Zeros(W - Len(value)) \o value)))
    ELSE Err("ShareInvalidSecret")

\* from_bytes: s = [0u8; 32]; s[..value.len()] = value
ScalarFromBytes(value) ==
    IF Len(value) <= W
    THEN Ok(P256Scalar(FromBytesReduced(value \o Zeros(W - Len(value)))))
    ELSE Err("ShareInvalidSecret")

ScalarIsZero(a) == a.v = 0
ScalarIsValid(a) == a.v # 0
ScalarNegate(a) == P256Scalar((Order - a.v) % Order)
ScalarAddAssign(a, b) == P256Scalar((a.v + b.v) % Order)
ScalarSubAssign(a, b) == P256Scalar((a.v + Order - b.v) % Order)
ScalarMulAssign(a, b) == P256Scalar((a.v * b.v) % Order)

\* div_assign without the inversion
ScalarDivAssignNoInvert(a, b) == Ok(ScalarMulAssign(a, b))

\* div_assign: self.0 *= rhs.0.invert().unwrap(); unwrap panics on none
ScalarDivAssign(a, b) ==
    LET inv == Invert(b.v) IN
    IF inv.some THEN Ok(ScalarMulAssign(a, P256Scalar(inv.v))) ELSE Panic

\* to_bytes: c = [0u8; 32]; c.copy_from_slice(self.0.to_bytes())
ScalarToBytes(a) == CopyFromSlice(W, ToBE(a.v, W))

----------------------------------------------------------------------------
\* p256::ProjectivePoint, AffinePoint and EncodedPoint, as P256Point uses them

FpInv(v) == Pow(v % Prime, Prime - 2, Prime)
FpSub(a, b) == (a + Prime - (b % Prime)) % Prime

PointNeg(p) == IF p.inf THEN Identity ELSE P256Point(p.x, (Prime - p.y) % Prime)

\* The group law (ProjectivePoint += ProjectivePoint), on affine coordinates
PointAdd(p, r) ==
    IF p.inf THEN r
    ELSE IF r.inf THEN p
    ELSE IF p.x = r.x /\ (p.y + r.y) % Prime = 0 THEN Identity
    ELSE LET lam == IF p.x = r.x
                    THEN ((3 * p.x * p.x + (Prime - 3)) * FpInv(2 * p.y)) % Prime
                    ELSE (FpSub(r.y, p.y) * FpInv(FpSub(r.x, p.x))) % Prime
             x3 == FpSub(FpSub(lam * lam, p.x), r.x)
             y3 == FpSub(lam * FpSub(p.x, x3), p.y)
         IN P256Point(x3, y3)

\* ProjectivePoint *= Scalar
RECURSIVE PointMul(_, _)
PointMul(p, k) ==
    IF k = 0 THEN Identity
    ELSE IF k % 2 = 0
         THEN LET h == PointMul(p, k \div 2) IN PointAdd(h, h)
         ELSE PointAdd(p, PointMul(p, k - 1))

\* to_affine().to_encoded_point(true).to_bytes(): the SEC1 compressed form, a
\* tag (2: y even, 3: y odd) and x; the identity is the single byte 0
EncodeCompressed(p) ==
    IF p.inf THEN <<0>> ELSE <<2 + (p.y % 2)>> \o ToBE(p.x, W)

\* EncodedPoint::from_bytes: the tag fixes the length
EncodedPointFromBytes(value) ==
    IF Len(value) = 0 THEN [ok |-> FALSE, tag |-> 0]
    ELSE LET tag == value[1]
             expected == IF tag = 0 THEN 1
                         ELSE IF tag \in {2, 3} THEN 1 + W
                         ELSE IF tag = 4 THEN 1 + 2 * W
                         ELSE 0
         IN [ok |-> expected # 0 /\ Len(value) = expected, tag |-> tag]

\* AffinePoint::from_encoded_point for a compressed or uncompressed point:
\* none when a coordinate is not below the prime or the point is not on the
\* curve
AffineFromEncoded(value) ==
    LET tag == value[1]
        x == BE(SubSeq(value, 2, 1 + W))
    IN IF tag = 4
       THEN LET y == BE(SubSeq(value, 2 + W, 1 + 2 * W)) IN
            IF x < Prime /\ y < Prime /\ OnCurve(x, y)
            THEN [some |-> TRUE, p |-> P256Point(x, y)]
            ELSE [some |-> FALSE, p |-> Identity]
       ELSE LET ys == {y \in 0..(Prime - 1) : OnCurve(x, y) /\ y % 2 = tag - 2} IN
            IF x < Prime /\ ys # {}
            THEN [some |-> TRUE, p |-> P256Point(x, CHOOSE y \in ys : TRUE)]
            ELSE [some |-> FALSE, p |-> Identity]

\* impl Field<P256Scalar, P256Point> for P256Point

PointZero == Identity
PointOne == P256Point(GenX, GenY)

\* from_bytes; idOk is whether the p256 build in use decodes the identity's
\* encoding to a point (the crate's releases differ, the example pins none)
PointFromBytes(value, idOk) ==
    LET ept == EncodedPointFromBytes(value) IN
    IF ~ept.ok THEN Err("InvalidPoint")
    ELSE IF ept.tag = 0
         THEN IF idOk THEN Ok(Identity) ELSE Err("InvalidPoint")
         ELSE LET apt == AffineFromEncoded(value) IN
              IF apt.some THEN Ok(apt.p) ELSE Err("InvalidPoint")

PointIsZero(p) == p.inf
PointIsValid(p) == ~p.inf
PointNegate(p) == PointNeg(p)
PointAddAssign(p, r) == PointAdd(p, r)
PointSubAssign(p, r) == PointAdd(p, PointNeg(r))
PointMulAssign(p, b) == PointMul(p, b.v)

\* div_assign without the inversion
PointDivAssignNoInvert(p, b) == Ok(PointMulAssign(p, b))

\* div_assign: self.0 *= rhs.0.invert().unwrap()
PointDivAssign(p, b) ==
    LET inv == Invert(b.v) IN
    IF inv.some THEN Ok(PointMulAssign(p, P256Scalar(inv.v))) ELSE Panic

\* to_bytes: c = [0u8; 32]; c.copy_from_slice(<the compressed encoding>)
PointToBytes(p) == CopyFromSlice(W, EncodeCompressed(p))

----------------------------------------------------------------------------
\* The element operations as steps of a program that constructs an element
\* and calls the trait's methods on it

Init ==
    /\ self = NoElem /\ orig = NoElem
    /\ rhs = ScalarOne /\ rhs0 = ScalarOne
    /\ buf = <<>> /\ res = "None" /\ ops = <<>>
    /\ secret = ScalarZero /\ total = 0 /\ thresh = 0
    /\ shares = <<>> /\ splitRes = "None"
    /\ picked = <<>> /\ combRes = "None" /\ combined = NoElem

\* A call on the current element is possible: the last call returned
\* normally (a panic ends the program) and the bound on calls is not reached
CanCall(kind) == self.kind = kind /\ res = "Ok" /\ Len(ops) < MaxOps

\* Nothing has been constructed or supplied yet
Fresh == self = NoElem /\ res = "None" /\ ops = <<>> /\ buf = <<>>

\* from_bytes reads a buffer the caller supplies, or the one to_bytes returned
CanDecode(kind) ==
    \/ self = NoElem /\ res = "None" /\ ops = <<>>
    \/ CanCall(kind) /\ ops # <<>> /\ ops[Len(ops)] = <<kind, "to_bytes">>

\* P256Scalar::random, for the element and for the operand
ScalarRandom ==
    \E a \in Scalars, b \in Scalars :
        /\ Fresh
        /\ self' = a /\ orig' = a /\ rhs' = b /\ rhs0' = b
        /\ buf' = <<>> /\ res' = "Ok" /\ ops' = <<>>
        /\ UNCHANGED shareVars

\* P256Point::random for the element, P256Scalar::random for the operand
PointRandom ==
    \E p \in Points, b \in Scalars :
        /\ Fresh
        /\ self' = p /\ orig' = p /\ rhs' = b /\ rhs0' = b
        /\ buf' = <<>> /\ res' = "Ok" /\ ops' = <<>>
        /\ UNCHANGED shareVars

\* The caller supplies a byte buffer to decode
LoadBuf ==
    \E b \in Bufs :
        /\ Fresh
        /\ self' = NoElem /\ orig' = NoElem
        /\ rhs' = ScalarOne /\ rhs0' = ScalarOne
        /\ buf' = b /\ res' = "None" /\ ops' = <<>>
        /\ UNCHANGED shareVars

\* The state after kind's from_bytes returned r
Decoded(kind, r) ==
    /\ self' = r.v
    /\ orig' = IF ops = <<>> THEN r.v ELSE orig
    /\ res' = r.st
    /\ ops' = Append(ops, <<kind, "from_bytes">>)
    /\ UNCHANGED <<rhs, rhs0, buf>>
    /\ UNCHANGED shareVars

ScalarFromBytesCall ==
    /\ CanDecode("scalar")
    /\ Decoded("scalar", ScalarFromBytes(buf))

PointFromBytesCall ==
    /\ CanDecode("point")
    /\ \E idOk \in BOOLEAN : Decoded("point", PointFromBytes(buf, idOk))

\* The state after to_bytes returned r
Encoded(r) ==
    /\ buf' = IF r.st = "Ok" THEN r.v ELSE buf
    /\ res' = r.st
    /\ ops' = Append(ops, <<self.kind, "to_bytes">>)
    /\ UNCHANGED <<self, orig, rhs, rhs0>>
    /\ UNCHANGED shareVars

ScalarToBytesCall ==
    /\ CanCall("scalar")
    /\ Encoded(ScalarToBytes(self))

PointToBytesCall ==
    /\ CanCall("point")
    /\ Encoded(PointToBytes(self))

ScalarMulAssignCall ==
    /\ CanCall("scalar")
    /\ self' = ScalarMulAssign(self, rhs)
    /\ ops' = Append(ops, <<self.kind, "mul_assign">>)
    /\ UNCHANGED <<orig, rhs, rhs0, buf, res>>
    /\ UNCHANGED shareVars

PointMulAssignCall ==
    /\ CanCall("point")
    /\ self' = PointMulAssign(self, rhs)
    /\ ops' = Append(ops, <<self.kind, "mul_assign">>)
    /\ UNCHANGED <<orig, rhs, rhs0, buf, res>>
    /\ UNCHANGED shareVars

\* The state after div_assign ended as r: on a panic self is not written
Divided(r) ==
    /\ self' = IF r.st = "Ok" THEN r.v ELSE self
    /\ res' = r.st
    /\ ops' = Append(ops, <<self.kind, "div_assign">>)
    /\ UNCHANGED <<orig, rhs, rhs0, buf>>
    /\ UNCHANGED shareVars

ScalarDivAssignCall ==
    /\ CanCall("scalar")
    /\ Divided(ScalarDivAssign(self, rhs))

PointDivAssignCall ==
    /\ CanCall("point")
    /\ Divided(PointDivAssign(self, rhs))

NextElement ==
    \/ ScalarRandom
    \/ PointRandom
    \/ LoadBuf
    \/ ScalarFromBytesCall
    \/ PointFromBytesCall
    \/ ScalarToBytesCall
    \/ PointToBytesCall
    \/ ScalarMulAssignCall
    \/ PointMulAssignCall
    \/ ScalarDivAssignCall
    \/ PointDivAssignCall

SpecElement == Init /\ [][NextElement]_vars

----------------------------------------------------------------------------
\* The sharing scheme (ursa_sharing's split and combine), over P256Scalar

Share(id, value) == [id |-> id, value |-> value]

\* evaluate(polynomial, x): Horner's method from the highest coefficient down
RECURSIVE Evaluate(_, _)
Evaluate(poly, x) ==
    IF Len(poly) = 1 THEN poly[1]
    ELSE ScalarAddAssign(ScalarMulAssign(Evaluate(Tail(poly), x), x), poly[1])

\* split with the threshold checked against 1 only
SplitNoUpperCheck(s, n, t, coeffs) ==
    IF ~(1 <= t) THEN [st |-> "InvalidThreshold", v |-> <<>>]
    ELSE IF ~ScalarIsValid(s) THEN [st |-> "InvalidSecret", v |-> <<>>]
    ELSE LET poly == <<s>> \o coeffs IN
         [st |-> "Ok",
          v |-> [i \in 1..n |-> Share(i, Evaluate(poly, ScalarFromUsize(i)))]]

\* split(secret, n, t) with the random coefficients c1..c_{t-1} drawn
Split(s, n, t, coeffs) ==
    IF ~(1 <= t /\ t <= n) THEN [st |-> "InvalidThreshold", v |-> <<>>]
    ELSE IF ~ScalarIsValid(s) THEN [st |-> "InvalidSecret", v |-> <<>>]
    ELSE LET poly == <<s>> \o coeffs IN
         [st |-> "Ok",
          v |-> [i \in 1..n |-> Share(i, Evaluate(poly, ScalarFromUsize(i)))]]

\* The Lagrange basis coefficient at 0 of share i among sh, over the shares
\* j..Len(sh): the product of (0 - x_j) / (x_i - x_j) for j # i
RECURSIVE Basis(_, _, _)
Basis(sh, i, j) ==
    IF j > Len(sh) THEN Ok(ScalarOne)
    ELSE LET rest == Basis(sh, i, j + 1) IN
         IF j = i \/ rest.st # "Ok" THEN rest
         ELSE LET xi == ScalarFromUsize(sh[i].id)
                  xj == ScalarFromUsize(sh[j].id)
                  q == ScalarDivAssign(ScalarSubAssign(ScalarZero, xj),
                                       ScalarSubAssign(xi, xj))
              IN IF q.st = "Ok" THEN Ok(ScalarMulAssign(rest.v, q.v))
                 ELSE Err("DivisionByZero")

\* The sum of L_i * value_i over the shares i..Len(sh)
RECURSIVE Interpolate(_, _)
Interpolate(sh, i) ==
    IF i > Len(sh) THEN Ok(ScalarZero)
    ELSE LET rest == Interpolate(sh, i + 1)
             li == Basis(sh, i, 1)
         IN IF rest.st # "Ok" THEN rest
            ELSE IF li.st # "Ok" THEN li
            ELSE Ok(ScalarAddAssign(rest.v, ScalarMulAssign(sh[i].value, li.v)))

\* combine without the check for a repeated index
CombineNoDuplicateCheck(sh) ==
    IF Len(sh) = 0 THEN Err("EmptyShares")
    ELSE IF \E i \in 1..Len(sh) : ~ScalarIsValid(sh[i].value)
         THEN Err("InvalidShare")
    ELSE Interpolate(sh, 1)

\* combine(shares)
Combine(sh) ==
    IF Len(sh) = 0 THEN Err("EmptyShares")
    ELSE IF \E i, j \in 1..Len(sh) : i # j /\ sh[i].id = sh[j].id
         THEN Err("DuplicateIndex")
    ELSE IF \E i \in 1..Len(sh) : ~ScalarIsValid(sh[i].value)
         THEN Err("InvalidShare")
    ELSE Interpolate(sh, 1)

\* The members of a set of share indices, in increasing order
RECURSIVE Ascending(_)
Ascending(ids) ==
    IF ids = {} THEN <<>>
    ELSE LET m == CHOOSE a \in ids : \A b \in ids : a <= b
         IN <<m>> \o Ascending(ids \ {m})

\* The (n, t) handed to split
SplitArgs ==
    {a \in (0..MaxN) \X (0..(MaxN + 1)) :
        (1 <= a[2] /\ a[2] <= a[1]) => a[1] <= MaxSplit}

\* The lists of arbitrary shares handed to combine
RECURSIVE ShareLists(_)
ShareLists(n) ==
    IF n = 0 THEN {<<>>}
    ELSE {Append(l, Share(id, value)) :
             l \in ShareLists(n - 1), id \in 1..MaxIdx, value \in Scalars}

\* Neither split nor combine has been called
FreshSharing == splitRes = "None" /\ combRes = "None"

\* split_secret, drawing the secret and the parameters; the coefficients are
\* drawn once the threshold and the secret are accepted
SplitCall ==
    /\ FreshSharing
    /\ \E s \in Scalars, a \in SplitArgs :
        LET n == a[1]
            t == a[2]
            drawn == IF 1 <= t /\ t <= n /\ ScalarIsValid(s) THEN t - 1 ELSE 0
        IN \E coeffs \in [1..drawn -> Scalars] :
            LET r == Split(s, n, t, coeffs) IN
            /\ secret' = s /\ total' = n /\ thresh' = t
            /\ shares' = r.v /\ splitRes' = r.st
            /\ UNCHANGED <<picked, combRes, combined>>
            /\ UNCHANGED elemVars

\* The state after combine(sh) returned
Combined(sh) ==
    LET r == Combine(sh) IN
    /\ picked' = sh /\ combRes' = r.st /\ combined' = r.v
    /\ UNCHANGED <<secret, total, thresh, shares, splitRes>>
    /\ UNCHANGED elemVars

\* combine_shares on thresh of the shares split returned
CombineSubset ==
    /\ splitRes = "Ok" /\ combRes = "None"
    /\ \E ids \in SUBSET (1..total) :
        /\ Cardinality(ids) = thresh
        /\ Combined([k \in 1..thresh |-> shares[Ascending(ids)[k]]])

\* combine_shares on shares of the caller's making
CombineAny ==
    /\ FreshSharing
    /\ \E n \in 0..MaxShares : \E sh \in ShareLists(n) : Combined(sh)

NextSharing ==
    \/ SplitCall
    \/ CombineSubset
    \/ CombineAny

SpecSharing == Init /\ [][NextSharing]_vars

----------------------------------------------------------------------------
\* Properties of the element operations

\* The last call made was kind's method
LastCall(kind, method) == ops # <<>> /\ ops[Len(ops)] = <<kind, method>>
\* The only call made was kind's method
OnlyCall(kind, method) == ops = << <<kind, method>> >>
\* Exactly to_bytes and then from_bytes were called on the constructed element
RoundTripped(kind) == ops = << <<kind, "to_bytes">>, <<kind, "from_bytes">> >>
\* Exactly mul_assign and then div_assign were called on the constructed element
MulThenDiv(kind) == ops = << <<kind, "mul_assign">>, <<kind, "div_assign">> >>

\* C2 (scalar half): to_bytes of a scalar returns W bytes and from_bytes of
\* them returns the scalar.
C2_ScalarRoundTrip ==
    /\ LastCall("scalar", "to_bytes") => res = "Ok" /\ Len(buf) = W
    /\ RoundTripped("scalar") => res = "Ok" /\ self = orig

\* C2: for every element of either kind, to_bytes completes and returns W
\* bytes, and from_bytes of those bytes returns Ok of the same element.
C2_EncodingRoundTrip ==
    \A kind \in {"scalar", "point"} :
        /\ LastCall(kind, "to_bytes") => res = "Ok" /\ Len(buf) = W
        /\ RoundTripped(kind) => res = "Ok" /\ self = orig

\* C3: div_assign by the zero scalar, on an element of either kind, ends with
\* the error DivisionByZero; it never aborts the program.
C3_DivisionByZeroReported ==
    \A kind \in {"scalar", "point"} :
        LastCall(kind, "div_assign") /\ ScalarIsZero(rhs)
            => res = "DivisionByZero"

\* C4: scalar from_bytes returns the invalid-secret error for every buffer
\* longer than W bytes and Ok for every buffer of at most W bytes.
C4_ScalarDecodeLength ==
    OnlyCall("scalar", "from_bytes") =>
        /\ Len(buf) > W => res = "ShareInvalidSecret" /\ self = NoElem
        /\ Len(buf) <= W => res = "Ok" /\ self \in Scalars

C4_Witness ==
    /\ OnlyCall("scalar", "from_bytes")
    /\ Len(buf) = W + 1 /\ buf[W + 1] # 0
    /\ res = "ShareInvalidSecret"

\* C5: point from_bytes returns Ok on a buffer of exactly W bytes that is the
\* encoding to_bytes produces for some point, and InvalidPoint on every
\* buffer of W+1 bytes whose trailing byte is not zero.
C5_PointDecodeBoundary ==
    OnlyCall("point", "from_bytes") =>
        /\ (Len(buf) = W /\ \E p \in Points :
                LET enc == PointToBytes(p) IN enc.st = "Ok" /\ enc.v = buf)
               => res = "Ok"
        /\ (Len(buf) = W + 1 /\ buf[W + 1] # 0) => res = "InvalidPoint"

\* C6: scalar from_bytes returns an error on a W-byte buffer whose big-endian
\* value is not below the field order, and returns Ok only on the canonical
\* encoding of the scalar it returns (a short buffer being read with the zero
\* bytes that complete it to W).
C6_NonCanonicalRejected ==
    OnlyCall("scalar", "from_bytes") =>
        /\ (Len(buf) = W /\ BE(buf) >= Order) => res # "Ok"
        /\ (res = "Ok" /\ Len(buf) <= W) =>
               buf \o Zeros(W - Len(buf)) = ToBE(self.v, W)

\* v shifted up by n bytes
RECURSIVE ShiftBytes(_, _)
ShiftBytes(v, n) == IF n = 0 THEN v ELSE ShiftBytes(v * Base, n - 1)

\* C9: for a buffer shorter than W, scalar from_bytes returns what it returns
\* for the buffer followed by zero bytes up to W: the scalar whose value is
\* the buffer's big-endian value shifted up by the missing bytes, reduced.
C9_ShortBufferPaddedLow ==
    (OnlyCall("scalar", "from_bytes") /\ Len(buf) < W) =>
        LET missing == W - Len(buf)
            padded == ScalarFromBytes(buf \o Zeros(missing))
        IN /\ res = "Ok" /\ padded.st = "Ok"
           /\ self = padded.v
           /\ self.v = ShiftBytes(BE(buf), missing) % Order

C9_Witness ==
    /\ OnlyCall("scalar", "from_bytes")
    /\ Len(buf) = 1 /\ buf[1] # 0 /\ W > 1
    /\ res = "Ok" /\ self.v = (buf[1] * Base) % Order

\* C10: mul_assign(b) followed by div_assign(b), for a non-zero scalar b,
\* leaves the element equal to the original, and leaves b as it was.
C10_DivUndoesMul ==
    \A kind \in {"scalar", "point"} :
        (MulThenDiv(kind) /\ ScalarIsValid(rhs0)) =>
            res = "Ok" /\ self = orig /\ rhs = rhs0

C10_Witness ==
    /\ MulThenDiv("point") /\ rhs0.v > 1
    /\ ~orig.inf /\ self = orig /\ res = "Ok"

----------------------------------------------------------------------------
\* Properties of split and combine

\* combine was called on thresh of the shares of a successful split
CombinedSubset == splitRes = "Ok" /\ combRes # "None"
\* Every share handed to combine has a valid (non-zero) value
AllPickedValid == \A i \in 1..Len(picked) : ScalarIsValid(picked[i].value)
\* Two of the shares handed to combine have the same index
PickedDuplicate ==
    \E i, j \in 1..Len(picked) : i # j /\ picked[i].id = picked[j].id

C7_SplitThreshold ==
    (splitRes # "None" /\ (thresh < 1 \/ thresh > total)) =>
        splitRes = "InvalidThreshold" /\ shares = <<>>

C7_Witness ==
    /\ splitRes = "InvalidThreshold" /\ shares = <<>>
    /\ total = 3 /\ thresh = 4 /\ ScalarIsValid(secret)

\* C8: combine on a non-empty list of shares two of which have the same index
\* fails with DuplicateIndex, equal values or not, and returns no element.
C8_DuplicateIndex ==
    (combRes # "None" /\ PickedDuplicate) =>
        combRes = "DuplicateIndex" /\ combined = NoElem

C8_Witness ==
    /\ combRes = "DuplicateIndex" /\ combined = NoElem
    /\ Len(picked) = 2 /\ picked[1].id = picked[2].id
    /\ picked[1].value # picked[2].value
    /\ AllPickedValid

====
